---- MODULE Spec2Model ----
(***************************************************************************)
(* Currency converter worker: the rate catalog built by the CSV build      *)
(* script, the query validator, the converter, the /convert handler and    *)
(* the worker's fetch router.                                              *)
(*                                                                         *)
(* Numbers.  The program computes with IEEE doubles.  A number is modelled *)
(* as one of: not-a-number, an infinity with a sign, or an exact rational  *)
(* n/d in lowest terms (d > 0).  Arithmetic follows the IEEE rules for     *)
(* the special values (x/0, 0/0, Infinity*0, ...); finite results are      *)
(* exact, so binary representation error (1.005*100 = 100.49999...) and    *)
(* the sign of zero are outside the model.                                 *)
(*                                                                         *)
(* Strings.  Currency names, paths and methods are TLA+ strings.  A string *)
(* that the program scans character by character (the amount parameter,    *)
(* the "Exchange Rate" field of a CSV row) is a sequence of one-character  *)
(* strings.                                                                *)
(***************************************************************************)
EXTENDS Integers, Sequences, FiniteSets, TLC

(***************************************************************************)
(* Bounds of the model                                                     *)
(***************************************************************************)
\* longest CSV table (data rows) handed to the build script
MaxRows == 2
\* direct calls of convert() take every amount k/1000 with |k| <= MaxMilli
MaxMilli == 30

(***************************************************************************)
(* Numbers                                                                 *)
(***************************************************************************)
Abs(i) == IF i < 0 THEN -i ELSE i

Sign(i) == IF i < 0 THEN -1 ELSE IF i = 0 THEN 0 ELSE 1

RECURSIVE GCD(_, _)
GCD(a, b) == IF b = 0 THEN a ELSE GCD(b, a % b)

NaN == [k |-> "nan", n |-> 0, d |-> 1]

Inf(s) == [k |-> "inf", n |-> s, d |-> 0]

\* the rational n/d (d # 0) in lowest terms with a positive denominator
Fin(n, d) ==
    LET g == GCD(Abs(n), Abs(d))
        s == IF d < 0 THEN -1 ELSE 1
    IN  [k |-> "fin", n |-> s * (n \div g), d |-> s * (d \div g)]

\* the rational (a * b) / (c * e), common factors cancelled before multiplying
Ratio(a, b, c, e) ==
    LET g1 == GCD(Abs(a), Abs(c))
        g2 == GCD(Abs(b), Abs(e))
        a1 == a \div g1
        c1 == c \div g1
        b1 == b \div g2
        e1 == e \div g2
        g3 == GCD(Abs(a1), Abs(e1))
        g4 == GCD(Abs(b1), Abs(c1))
    IN  Fin((a1 \div g3) * (b1 \div g4), (c1 \div g4) * (e1 \div g3))

IsFinite(x) == x.k = "fin"

\* JS isNaN on a number
isNaN(x) == x.k = "nan"

\* sign of a number that is not NaN: -1, 0 or 1
SignOf(x) == IF x.k = "inf" THEN x.n ELSE Sign(x.n)

\* JS x * y
Mul(x, y) ==
    IF isNaN(x) \/ isNaN(y) THEN NaN
    ELSE IF IsFinite(x) /\ IsFinite(y) THEN Ratio(x.n, y.n, x.d, y.d)
    ELSE IF SignOf(x) = 0 \/ SignOf(y) = 0 THEN NaN
    ELSE Inf(SignOf(x) * SignOf(y))

\* JS x / y
Div(x, y) ==
    IF isNaN(x) \/ isNaN(y) THEN NaN
    ELSE IF x.k = "inf"
         THEN IF y.k = "inf" THEN NaN
              ELSE Inf(IF SignOf(y) < 0 THEN -x.n ELSE x.n)
    ELSE IF y.k = "inf" THEN Fin(0, 1)
    ELSE IF y.n = 0
         THEN IF x.n = 0 THEN NaN ELSE Inf(Sign(x.n))
    ELSE Ratio(x.n, y.d, x.d, y.n)

\* JS x > y for a finite y
GreaterThan(x, y) ==
    IF isNaN(x) THEN FALSE
    ELSE IF x.k = "inf" THEN x.n > 0
    ELSE x.n * y.d > y.n * x.d

\* JS x <= y for a finite y
LessOrEqual(x, y) ==
    IF isNaN(x) THEN FALSE
    ELSE IF x.k = "inf" THEN x.n < 0
    ELSE x.n * y.d <= y.n * x.d

\* faulty variant of MathRound: Math.floor in place of Math.round
MathRound_floor(x) ==
    IF IsFinite(x) THEN Fin(x.n \div x.d, 1) ELSE x

\* JS Math.round: the integer floor(x + 1/2); NaN and the infinities are kept
MathRound(x) ==
    IF IsFinite(x) THEN Fin((2 * x.n + x.d) \div (2 * x.d), 1) ELSE x

Zero == Fin(0, 1)

One == Fin(1, 1)

Hundred == Fin(100, 1)

(***************************************************************************)
(* parseFloat (ECMAScript): skip leading white space, then read the        *)
(* longest prefix that is a decimal literal; what follows is ignored.      *)
(***************************************************************************)
DigitChars == <<"0", "1", "2", "3", "4", "5", "6", "7", "8", "9">>

IsDigit(c) == \E i \in 1..10 : DigitChars[i] = c

DigitVal(c) == (CHOOSE i \in 1..10 : DigitChars[i] = c) - 1

\* first position at or after i that holds no white space
RECURSIVE SkipWhiteSpace(_, _)
SkipWhiteSpace(s, i) ==
    IF i <= Len(s) /\ s[i] = " " THEN SkipWhiteSpace(s, i + 1) ELSE i

\* number of consecutive digits of s starting at position i
RECURSIVE DigitRun(_, _)
DigitRun(s, i) ==
    IF i <= Len(s) /\ IsDigit(s[i]) THEN 1 + DigitRun(s, i + 1) ELSE 0

\* value of the n digits of s starting at position i
RECURSIVE DigitsValue(_, _, _)
DigitsValue(s, i, n) ==
    IF n = 0 THEN 0
    ELSE 10 * DigitsValue(s, i, n - 1) + DigitVal(s[i + n - 1])

RECURSIVE Pow10(_)
Pow10(e) == IF e = 0 THEN 1 ELSE 10 * Pow10(e - 1)

\* does s continue with the characters of lit at position i
StartsWithAt(s, i, lit) ==
    /\ i + Len(lit) - 1 <= Len(s)
    /\ \A j \in 1..Len(lit) : s[i + j - 1] = lit[j]

InfinityLiteral == <<"I", "n", "f", "i", "n", "i", "t", "y">>

\* mant * 10^exp as a double (mant is a decimal with intDigits digits before
\* the point): Infinity beyond the largest double (about 1.8e308), 0 below
\* the smallest one (about 4.9e-324)
ScaleByExponent(mant, intDigits, exp, sign) ==
    IF mant.n = 0 \/ exp = 0 THEN Fin(sign * mant.n, mant.d)
    ELSE IF exp + intDigits - 1 > 308 THEN Inf(sign)
    ELSE IF exp + intDigits - 1 < -324 THEN Zero
    ELSE IF exp > 0 THEN Fin(sign * mant.n * Pow10(exp), mant.d)
    ELSE Fin(sign * mant.n, mant.d * Pow10(-exp))

\* is the character of s at position i one of cs
CharAtIn(s, i, cs) == i <= Len(s) /\ s[i] \in cs

\* the decimal with ni digits before the point (from position i) and nf
\* digits behind it
Mantissa(s, i, ni, nf) ==
    Fin(DigitsValue(s, i, ni) * Pow10(nf) + DigitsValue(s, i + ni + 1, nf),
        Pow10(nf))

\* the exponent part at position i: "e" or "E", an optional sign and at
\* least one digit; anything else is no exponent
ExponentAt(s, i) ==
    IF ~CharAtIn(s, i, {"e", "E"}) THEN 0
    ELSE IF CharAtIn(s, i + 1, {"-"})
    THEN -DigitsValue(s, i + 2, DigitRun(s, i + 2))
    ELSE IF CharAtIn(s, i + 1, {"+"})
    THEN DigitsValue(s, i + 2, DigitRun(s, i + 2))
    ELSE DigitsValue(s, i + 1, DigitRun(s, i + 1))

\* the literal at position i has ni digits before the point and nf behind it
ParseDigits(s, i, ni, nf, sign) ==
    IF ni = 0 /\ nf = 0 THEN NaN
    ELSE ScaleByExponent(
             Mantissa(s, i, ni, nf), ni,
             ExponentAt(s, IF CharAtIn(s, i + ni, {"."}) THEN i + ni + 1 + nf
                           ELSE i + ni),
             sign)

\* the literal that starts at position i, behind the sign
ParseLiteral(s, i, ni, sign) ==
    IF StartsWithAt(s, i, InfinityLiteral) THEN Inf(sign)
    ELSE ParseDigits(s, i, ni,
                     IF CharAtIn(s, i + ni, {"."}) THEN DigitRun(s, i + ni + 1)
                     ELSE 0,
                     sign)

\* the optional sign at position i and the literal behind it
ParseSigned(s, i) ==
    IF CharAtIn(s, i, {"-"}) THEN ParseLiteral(s, i + 1, DigitRun(s, i + 1), -1)
    ELSE IF CharAtIn(s, i, {"+"})
    THEN ParseLiteral(s, i + 1, DigitRun(s, i + 1), 1)
    ELSE ParseLiteral(s, i, DigitRun(s, i), 1)

parseFloat(s) == ParseSigned(s, SkipWhiteSpace(s, 1))

(***************************************************************************)
(* The rate catalog: scripts/convert-csv build step                        *)
(***************************************************************************)
USD_CURRENCY == "United States-Dollar"

CANADA == "Canada-Dollar"

EURO == "Euro Zone-Euro"

KUWAIT == "Kuwait-Dinar"

\* the record date the build script keeps
SnapshotDate == "2025-12-31"

\* a data row after parseCSVLine: the number of fields and the four columns
\* the script reads
Row(n, date, name, rateStr, eff) ==
    [fieldCount |-> n, recordDate |-> date, currencyName |-> name,
     exchangeRateStr |-> rateStr, effectiveDate |-> eff]

\* rows of the snapshot date, a row of an earlier record date, a row whose
\* rate does not parse, a second row of the snapshot date for a currency, a
\* row for the anchor itself, rows with a zero and a negative rate and a row
\* with fewer than 5 fields
RowSet ==
    { Row(5, "2025-12-31", CANADA, <<"1", ".", "3", "6", "9">>, "2025-12-31"),
      Row(5, "2025-12-31", EURO, <<"0", ".", "8", "5", "1">>, "2025-12-31"),
      Row(5, "2025-12-31", KUWAIT, <<"0", ".", "3", "0", "7">>, "2025-12-31"),
      Row(5, "2025-09-30", CANADA, <<"1", ".", "4">>, "2025-09-30"),
      Row(5, "2025-12-31", EURO, <<"N", "/", "A">>, "2025-12-31"),
      Row(5, "2025-12-31", CANADA, <<"2">>, "2025-12-30"),
      Row(5, "2025-12-31", USD_CURRENCY, <<"1", ".", "5">>, "2025-12-31"),
      Row(5, "2025-12-31", KUWAIT, <<"0">>, "2025-12-31"),
      Row(5, "2025-12-31", EURO, <<"-", "0", ".", "8", "5", "1">>, "2025-12-31"),
      Row(4, "2025-12-31", KUWAIT, <<"0", ".", "3", "0", "7">>, "2025-12-31") }

RECURSIVE SeqsUpTo(_, _)
SeqsUpTo(S, n) ==
    IF n = 0 THEN {<<>>}
    ELSE LET shorter == SeqsUpTo(S, n - 1)
         IN  shorter \cup {Append(q, x) : q \in shorter, x \in S}

\* the CSV tables (data rows below the header) the build is run on
Tables == SeqsUpTo(RowSet, MaxRows)

\* the catalog with the entry for name added (Map.set)
MapSet(map, name, entry) ==
    [c \in DOMAIN map \cup {name} |-> IF c = name THEN entry ELSE map[c]]

\* faulty variant of ProcessRow: a later row of a currency replaces the entry
ProcessRow_lastWins(map, row) ==
    IF row.fieldCount < 5 THEN map
    ELSE IF row.recordDate # SnapshotDate \/ row.currencyName = "" THEN map
    ELSE LET rate == parseFloat(row.exchangeRateStr)
         IN  IF isNaN(rate) THEN map
             ELSE MapSet(map, row.currencyName,
                         [currencyName |-> row.currencyName, rate |-> rate,
                          effectiveDate |-> row.effectiveDate])

\* one iteration of the row loop
ProcessRow(map, row) ==
    IF row.fieldCount < 5 THEN map
    ELSE IF row.recordDate # SnapshotDate \/ row.currencyName = "" THEN map
    ELSE LET rate == parseFloat(row.exchangeRateStr)
         IN  IF isNaN(rate) THEN map
             ELSE IF row.currencyName \in DOMAIN map THEN map
             ELSE MapSet(map, row.currencyName,
                         [currencyName |-> row.currencyName, rate |-> rate,
                          effectiveDate |-> row.effectiveDate])

RECURSIVE ProcessRows(_, _, _)
ProcessRows(map, rows, i) ==
    IF i > Len(rows) THEN map
    ELSE ProcessRows(ProcessRow(map, rows[i]), rows, i + 1)

EmptyMap == [c \in {} |-> NaN]

\* the Map the build script writes into src/data/exchangeRates.ts
convertCSVToJSON(rows) ==
    LET map == ProcessRows(EmptyMap, rows, 1)
    IN  IF USD_CURRENCY \in DOMAIN map THEN map
        ELSE MapSet(map, USD_CURRENCY,
                    [currencyName |-> USD_CURRENCY, rate |-> One,
                     effectiveDate |-> "2025-12-31"])

(***************************************************************************)
(* URL query parameters.  A raw parameter value is a sequence of chunks:   *)
(* literal text, or one of the escapes "%20", "+" (a space) and "%2B" (a   *)
(* plus sign).  URLSearchParams.get answers the decoded value of the first *)
(* occurrence of the key, or null.                                         *)
(***************************************************************************)
DecodeChunk(c) ==
    IF c = "%20" \/ c = "+" THEN " "
    ELSE IF c = "%2B" THEN "+"
    ELSE c

URLDecode(raw) == [i \in 1..Len(raw) |-> DecodeChunk(raw[i])]

RECURSIVE Join(_)
Join(chunks) ==
    IF chunks = <<>> THEN "" ELSE Head(chunks) \o Join(Tail(chunks))

Null == [isNull |-> TRUE, chars |-> <<>>, str |-> ""]

\* a decoded string: its characters (for parseFloat) and its text
Str(chunks) == [isNull |-> FALSE, chars |-> chunks, str |-> Join(chunks)]

searchParamsGet(url, key) ==
    IF key \in DOMAIN url.query THEN Str(URLDecode(url.query[key])) ELSE Null

\* JS truthiness of string | null
Truthy(v) == ~v.isNull /\ v.str # ""

(***************************************************************************)
(* part of utils/validation                                                *)
(***************************************************************************)
RECURSIVE JoinWith(_, _)
JoinWith(names, sep) ==
    IF names = <<>> THEN ""
    ELSE IF Len(names) = 1 THEN names[1]
    ELSE names[1] \o sep \o JoinWith(Tail(names), sep)

ValidationError(field, message) == [field |-> field, message |-> message]

\* faulty variant of MissingParams: tests for null only, so an empty string
\* counts as given
MissingParams_nullOnly(amountStr, from, to) ==
    (IF amountStr.isNull THEN <<"amount">> ELSE <<>>)
      \o (IF from.isNull THEN <<"from">> ELSE <<>>)
      \o (IF to.isNull THEN <<"to">> ELSE <<>>)

\* the missingParams array of validateQueryParams
MissingParams(amountStr, from, to) ==
    (IF ~Truthy(amountStr) THEN <<"amount">> ELSE <<>>)
      \o (IF ~Truthy(from) THEN <<"from">> ELSE <<>>)
      \o (IF ~Truthy(to) THEN <<"to">> ELSE <<>>)

\* faulty variant of AmountErrors: amount < 0 in place of amount <= 0
AmountErrors_zeroAccepted(amount) ==
    IF isNaN(amount)
    THEN <<ValidationError("amount", "Amount must be a valid number")>>
    ELSE IF LessOrEqual(amount, Zero) /\ amount # Zero
    THEN <<ValidationError("amount", "Amount must be greater than 0")>>
    ELSE <<>>

\* the amount check of validateQueryParams
\* faulty variant of AmountErrors: the two tests are separate ifs and the
\* second one is !(amount > 0)
AmountErrors_noElse(amount) ==
    (IF isNaN(amount)
     THEN <<ValidationError("amount", "Amount must be a valid number")>>
     ELSE <<>>)
    \o (IF ~GreaterThan(amount, Zero)
        THEN <<ValidationError("amount", "Amount must be greater than 0")>>
        ELSE <<>>)

AmountErrors(amount) ==
    IF isNaN(amount)
    THEN <<ValidationError("amount", "Amount must be a valid number")>>
    ELSE IF LessOrEqual(amount, Zero)
    THEN <<ValidationError("amount", "Amount must be greater than 0")>>
    ELSE <<>>

\* faulty variant of CurrencyErrors: the 'to' side is never checked
CurrencyErrors_fromOnly(rates, side, v) ==
    IF side = "from" /\ Truthy(v) /\ v.str \notin DOMAIN rates
    THEN <<ValidationError(side, "Currency '" \o v.str \o "' is not supported")>>
    ELSE <<>>

\* the catalog membership check of validateQueryParams for one side
CurrencyErrors(rates, side, v) ==
    IF Truthy(v) /\ v.str \notin DOMAIN rates
    THEN <<ValidationError(side, "Currency '" \o v.str \o "' is not supported")>>
    ELSE <<>>

\* faulty variant of PairErrors: only from is compared with the anchor
PairErrors_fromOnly(from, to) ==
    IF Truthy(from) /\ Truthy(to) /\ from.str # USD_CURRENCY
    THEN <<ValidationError("currencies",
             "Only conversions involving '" \o USD_CURRENCY \o "' are supported")>>
    ELSE <<>>

\* the anchor check of validateQueryParams
\* faulty variant of PairErrors: a pair of one and the same currency is let
\* through
PairErrors_sameCurrencyAllowed(from, to) ==
    IF Truthy(from) /\ Truthy(to) /\ from.str # to.str
         /\ from.str # USD_CURRENCY /\ to.str # USD_CURRENCY
    THEN <<ValidationError("currencies",
             "Only conversions involving '" \o USD_CURRENCY \o "' are supported")>>
    ELSE <<>>

PairErrors(from, to) ==
    IF Truthy(from) /\ Truthy(to)
         /\ from.str # USD_CURRENCY /\ to.str # USD_CURRENCY
    THEN <<ValidationError("currencies",
             "Only conversions involving '" \o USD_CURRENCY \o "' are supported")>>
    ELSE <<>>

Invalid(errors) ==
    [valid |-> FALSE, errors |-> errors,
     data |-> [amount |-> NaN, from |-> "", to |-> ""]]

\* faulty variant of Valid: from and to change places
Valid_swapped(amount, from, to) ==
    [valid |-> TRUE, errors |-> <<>>,
     data |-> [amount |-> amount, from |-> to, to |-> from]]

Valid(amount, from, to) ==
    [valid |-> TRUE, errors |-> <<>>,
     data |-> [amount |-> amount, from |-> from, to |-> to]]

\* the result once the checks have run
ResultOf(errors, amount, from, to) ==
    IF Len(errors) > 0 THEN Invalid(errors) ELSE Valid(amount, from.str, to.str)

\* faulty variant of ValidationErrors: the anchor check is left out
ValidationErrors_noAnchorCheck(rates, amount, from, to) ==
    AmountErrors(amount) \o CurrencyErrors(rates, "from", from)
        \o CurrencyErrors(rates, "to", to)

\* the errors array after the amount, membership and anchor checks
ValidationErrors(rates, amount, from, to) ==
    AmountErrors(amount) \o CurrencyErrors(rates, "from", from)
        \o CurrencyErrors(rates, "to", to) \o PairErrors(from, to)

\* validateQueryParams once the three parameters are extracted
ValidateParams(rates, amountStr, from, to, missingParams) ==
    IF Len(missingParams) > 0
    THEN Invalid(<<ValidationError("parameters",
             "Missing required parameters: " \o JoinWith(missingParams, ", "))>>)
    ELSE ResultOf(ValidationErrors(rates, parseFloat(amountStr.chars), from, to),
                  parseFloat(amountStr.chars), from, to)

validateQueryParams(rates, url) ==
    ValidateParams(rates, searchParamsGet(url, "amount"),
                   searchParamsGet(url, "from"), searchParamsGet(url, "to"),
                   MissingParams(searchParamsGet(url, "amount"),
                                 searchParamsGet(url, "from"),
                                 searchParamsGet(url, "to")))

isCurrencySupported(rates, currencyName) == currencyName \in DOMAIN rates

isUSDPair(from, to) == from = USD_CURRENCY \/ to = USD_CURRENCY

isValidAmount(amount) == ~isNaN(amount) /\ GreaterThan(amount, Zero)

(***************************************************************************)
(* utils/converter                                                         *)
(***************************************************************************)
roundToTwoDecimals(value) == Div(MathRound(Mul(value, Hundred)), Hundred)

Returned(value) == [threw |-> FALSE, value |-> value, message |-> ""]

Thrown(message) == [threw |-> TRUE, value |-> NaN, message |-> message]

\* faulty variant of convert: anchor -> foreign divides by the rate
convert_divideByToRate(rates, amount, from, to) ==
    IF from = to THEN Returned(roundToTwoDecimals(amount))
    ELSE IF from \notin DOMAIN rates
    THEN Thrown("Currency '" \o from \o "' not found in exchange rates")
    ELSE IF to \notin DOMAIN rates
    THEN Thrown("Currency '" \o to \o "' not found in exchange rates")
    ELSE IF from # USD_CURRENCY /\ to # USD_CURRENCY
    THEN Thrown("Only conversions involving '" \o USD_CURRENCY
                    \o "' are supported")
    ELSE IF from = USD_CURRENCY
    THEN Returned(roundToTwoDecimals(Div(amount, rates[to].rate)))
    ELSE IF to = USD_CURRENCY
    THEN Returned(roundToTwoDecimals(Div(amount, rates[from].rate)))
    ELSE Thrown("Invalid conversion pair")

\* faulty variant of convert: the catalog is consulted before the
\* same-currency case
convert_lookupFirst(rates, amount, from, to) ==
    IF from \notin DOMAIN rates
    THEN Thrown("Currency '" \o from \o "' not found in exchange rates")
    ELSE IF to \notin DOMAIN rates
    THEN Thrown("Currency '" \o to \o "' not found in exchange rates")
    ELSE IF from = to THEN Returned(roundToTwoDecimals(amount))
    ELSE IF from # USD_CURRENCY /\ to # USD_CURRENCY
    THEN Thrown("Only conversions involving '" \o USD_CURRENCY
                    \o "' are supported")
    ELSE IF from = USD_CURRENCY
    THEN Returned(roundToTwoDecimals(Mul(amount, rates[to].rate)))
    ELSE IF to = USD_CURRENCY
    THEN Returned(roundToTwoDecimals(Div(amount, rates[from].rate)))
    ELSE Thrown("Invalid conversion pair")

\* faulty variant of convert: the anchor rule is checked before the catalog
\* lookups
convert_pairFirst(rates, amount, from, to) ==
    IF from = to THEN Returned(roundToTwoDecimals(amount))
    ELSE IF from # USD_CURRENCY /\ to # USD_CURRENCY
    THEN Thrown("Only conversions involving '" \o USD_CURRENCY
                    \o "' are supported")
    ELSE IF from \notin DOMAIN rates
    THEN Thrown("Currency '" \o from \o "' not found in exchange rates")
    ELSE IF to \notin DOMAIN rates
    THEN Thrown("Currency '" \o to \o "' not found in exchange rates")
    ELSE IF from = USD_CURRENCY
    THEN Returned(roundToTwoDecimals(Mul(amount, rates[to].rate)))
    ELSE Returned(roundToTwoDecimals(Div(amount, rates[from].rate)))

\* faulty variant of convert: a pair without the anchor is converted through
\* the anchor
convert_multiHop(rates, amount, from, to) ==
    IF from = to THEN Returned(roundToTwoDecimals(amount))
    ELSE IF from \notin DOMAIN rates
    THEN Thrown("Currency '" \o from \o "' not found in exchange rates")
    ELSE IF to \notin DOMAIN rates
    THEN Thrown("Currency '" \o to \o "' not found in exchange rates")
    ELSE IF from = USD_CURRENCY
    THEN Returned(roundToTwoDecimals(Mul(amount, rates[to].rate)))
    ELSE IF to = USD_CURRENCY
    THEN Returned(roundToTwoDecimals(Div(amount, rates[from].rate)))
    ELSE Returned(roundToTwoDecimals(
             Mul(Div(amount, rates[from].rate), rates[to].rate)))

convert(rates, amount, from, to) ==
    IF from = to THEN Returned(roundToTwoDecimals(amount))
    ELSE IF from \notin DOMAIN rates
    THEN Thrown("Currency '" \o from \o "' not found in exchange rates")
    ELSE IF to \notin DOMAIN rates
    THEN Thrown("Currency '" \o to \o "' not found in exchange rates")
    ELSE IF from # USD_CURRENCY /\ to # USD_CURRENCY
    THEN Thrown("Only conversions involving '" \o USD_CURRENCY
                    \o "' are supported")
    ELSE IF from = USD_CURRENCY
    THEN Returned(roundToTwoDecimals(Mul(amount, rates[to].rate)))
    ELSE IF to = USD_CURRENCY
    THEN Returned(roundToTwoDecimals(Div(amount, rates[from].rate)))
    ELSE Thrown("Invalid conversion pair")

\* number | null
NullRate == [isNull |-> TRUE, value |-> NaN]

SomeRate(value) == [isNull |-> FALSE, value |-> value]

\* faulty variant of getEffectiveRate: foreign -> anchor answers the catalog
\* rate, not its inverse
getEffectiveRate_notInverted(rates, from, to) ==
    IF from = to THEN SomeRate(One)
    ELSE IF from \notin DOMAIN rates \/ to \notin DOMAIN rates THEN NullRate
    ELSE IF from = USD_CURRENCY THEN SomeRate(rates[to].rate)
    ELSE IF to = USD_CURRENCY THEN SomeRate(rates[from].rate)
    ELSE NullRate

\* faulty variant of getEffectiveRate: a pair without the anchor gets the
\* cross rate
getEffectiveRate_crossRate(rates, from, to) ==
    IF from = to THEN SomeRate(One)
    ELSE IF from \notin DOMAIN rates \/ to \notin DOMAIN rates THEN NullRate
    ELSE IF from = USD_CURRENCY THEN SomeRate(rates[to].rate)
    ELSE IF to = USD_CURRENCY THEN SomeRate(Div(One, rates[from].rate))
    ELSE SomeRate(Div(rates[to].rate, rates[from].rate))

getEffectiveRate(rates, from, to) ==
    IF from = to THEN SomeRate(One)
    ELSE IF from \notin DOMAIN rates \/ to \notin DOMAIN rates THEN NullRate
    ELSE IF from = USD_CURRENCY THEN SomeRate(rates[to].rate)
    ELSE IF to = USD_CURRENCY THEN SomeRate(Div(One, rates[from].rate))
    ELSE NullRate

(***************************************************************************)
(* handlers/convertHandler                                                 *)
(***************************************************************************)
Response(status, headers, body) ==
    [status |-> status, headers |-> headers, body |-> body]

JsonHeaders == [h \in {"Content-Type"} |-> "application/json"]

NoCacheJsonHeaders ==
    [h \in {"Content-Type", "Cache-Control"} |->
        IF h = "Content-Type" THEN "application/json" ELSE "no-cache"]

\* the details object: errors are written in order, so the last error of a
\* field is the one that stays
Details(errors) ==
    [f \in {errors[i].field : i \in 1..Len(errors)} |->
        LET last == CHOOSE i \in 1..Len(errors) :
                        /\ errors[i].field = f
                        /\ \A j \in (i + 1)..Len(errors) : errors[j].field # f
        IN  errors[last].message]

\* faulty variant of FirstMessage: the message of the last error
FirstMessage_lastError(errors) ==
    IF Len(errors) > 0 /\ errors[Len(errors)].message # ""
    THEN errors[Len(errors)].message
    ELSE "Invalid request parameters"

\* validationResult.errors[0]?.message || 'Invalid request parameters'
FirstMessage(errors) ==
    IF Len(errors) > 0 /\ errors[1].message # "" THEN errors[1].message
    ELSE "Invalid request parameters"

\* the 400 response of handleConvert
ValidationFailure(errors) ==
    Response(400, JsonHeaders,
        [error |-> "Invalid parameters",
         message |-> FirstMessage(errors),
         details |-> Details(errors)])

\* the JSON value null where a number is expected
JsonNull == [k |-> "null", n |-> 0, d |-> 1]

\* JSON.stringify of a number, read back by the client: a finite number is
\* written in decimal, NaN and the infinities are written as null
JSONNumber(x) == IF IsFinite(x) THEN x ELSE JsonNull

\* faulty variant of ConversionResponse: the rate reported depends on the
\* time of the request
ConversionResponse_rateByTime(data, convertedAmount, effectiveRate, now) ==
    IF convertedAmount.threw
    THEN Response(500, JsonHeaders,
             [error |-> "Conversion failed",
              message |-> convertedAmount.message])
    ELSE Response(200, NoCacheJsonHeaders,
             [amount |-> JSONNumber(data.amount),
              from |-> data.from, to |-> data.to,
              converted_amount |-> JSONNumber(convertedAmount.value),
              rate |-> JSONNumber(IF effectiveRate.isNull
                                     \/ now = "2026-01-01T00:00:01.000Z"
                                  THEN One
                                  ELSE effectiveRate.value),
              timestamp |-> now])

\* the response of handleConvert to a validated request: 200 with the
\* conversion, or 500 from the catch block when convert throws; the body is
\* the JSON document the client reads
ConversionResponse(data, convertedAmount, effectiveRate, now) ==
    IF convertedAmount.threw
    THEN Response(500, JsonHeaders,
             [error |-> "Conversion failed",
              message |-> convertedAmount.message])
    ELSE Response(200, NoCacheJsonHeaders,
             [amount |-> JSONNumber(data.amount),
              from |-> data.from, to |-> data.to,
              converted_amount |-> JSONNumber(convertedAmount.value),
              rate |-> JSONNumber(IF effectiveRate.isNull THEN One
                                  ELSE effectiveRate.value),
              timestamp |-> now])

\* handleConvert once the validator has answered
RespondTo(rates, validationResult, now) ==
    IF ~validationResult.valid
    THEN ValidationFailure(validationResult.errors)
    ELSE ConversionResponse(
             validationResult.data,
             convert(rates, validationResult.data.amount,
                     validationResult.data.from, validationResult.data.to),
             getEffectiveRate(rates, validationResult.data.from,
                              validationResult.data.to),
             now)

handleConvert(rates, request, now) ==
    RespondTo(rates, validateQueryParams(rates, request.url), now)

(***************************************************************************)
(* index: the worker's fetch                                               *)
(***************************************************************************)
AllowGetHeaders ==
    [h \in {"Content-Type", "Allow"} |->
        IF h = "Content-Type" THEN "application/json" ELSE "GET"]

\* faulty variant of fetch: the path is routed before the method is looked at
fetch_routeFirst(rates, request, now) ==
    IF request.url.pathname \notin {"/health", "/convert"}
    THEN Response(404, JsonHeaders,
             [error |-> "Not found",
              message |-> "Path " \o request.url.pathname \o " does not exist",
              available_endpoints |-> <<"/health", "/convert">>])
    ELSE IF request.method # "GET"
    THEN Response(405, AllowGetHeaders,
             [error |-> "Method not allowed",
              message |-> "This API only supports GET requests",
              allowed_methods |-> <<"GET">>])
    ELSE IF request.url.pathname = "/health"
    THEN Response(200, JsonHeaders,
             [status |-> "healthy",
              uptime |-> "Workers are stateless - always ready!"])
    ELSE handleConvert(rates, request, now)

\* faulty variant of fetch: the paths / and /hello are routes that answer a
\* greeting
fetch_helloRoutes(rates, request, now) ==
    IF request.method # "GET"
    THEN Response(405, AllowGetHeaders,
             [error |-> "Method not allowed",
              message |-> "This API only supports GET requests",
              allowed_methods |-> <<"GET">>])
    ELSE IF request.url.pathname \in {"/", "/hello"}
    THEN Response(200, NoCacheJsonHeaders,
             [message |-> "Hello World!", timestamp |-> now,
              worker |-> "APiClaude Hello World API", version |-> "1.0.0"])
    ELSE IF request.url.pathname = "/health"
    THEN Response(200, JsonHeaders,
             [status |-> "healthy",
              uptime |-> "Workers are stateless - always ready!"])
    ELSE IF request.url.pathname = "/convert"
    THEN handleConvert(rates, request, now)
    ELSE Response(404, JsonHeaders,
             [error |-> "Not found",
              message |-> "Path " \o request.url.pathname \o " does not exist",
              available_endpoints |->
                  <<"/", "/hello", "/health", "/convert">>])

fetch(rates, request, now) ==
    IF request.method # "GET"
    THEN Response(405, AllowGetHeaders,
             [error |-> "Method not allowed",
              message |-> "This API only supports GET requests",
              allowed_methods |-> <<"GET">>])
    ELSE IF request.url.pathname = "/health"
    THEN Response(200, JsonHeaders,
             [status |-> "healthy",
              uptime |-> "Workers are stateless - always ready!"])
    ELSE IF request.url.pathname = "/convert"
    THEN handleConvert(rates, request, now)
    ELSE Response(404, JsonHeaders,
             [error |-> "Not found",
              message |-> "Path " \o request.url.pathname \o " does not exist",
              available_endpoints |-> <<"/health", "/convert">>])

(***************************************************************************)
(* Inputs                                                                  *)
(***************************************************************************)
Absent == [present |-> FALSE, raw |-> <<>>]

Given(raw) == [present |-> TRUE, raw |-> raw]

\* the query of a URL: the keys that occur, each with its raw value
Query(a, f, t) ==
    [key \in (IF a.present THEN {"amount"} ELSE {})
               \cup (IF f.present THEN {"from"} ELSE {})
               \cup (IF t.present THEN {"to"} ELSE {}) |->
        IF key = "amount" THEN a.raw ELSE IF key = "from" THEN f.raw ELSE t.raw]

URL(pathname, query) == [pathname |-> pathname, query |-> query]

Request(method, url) == [method |-> method, url |-> url]

\* raw amount parameters: 100, 150, 0, -5, abc, 100abc, 0.01, 100.50,
\* Infinity, 1e999, the empty string, %2042 (" 42"), %2B5 ("+5")
AmountParams ==
    { Absent,
      Given(<<"1", "0", "0">>),
      Given(<<"1", "5", "0">>),
      Given(<<"0">>),
      Given(<<"-", "5">>),
      Given(<<"a", "b", "c">>),
      Given(<<"1", "0", "0", "a", "b", "c">>),
      Given(<<"0", ".", "0", "1">>),
      Given(<<"1", "0", "0", ".", "5", "0">>),
      Given(<<"I", "n", "f", "i", "n", "i", "t", "y">>),
      Given(<<"1", "e", "9", "9", "9">>),
      Given(<<>>),
      Given(<<"%20", "4", "2">>),
      Given(<<"%2B", "5">>) }

CurrencyParams ==
    { Absent,
      Given(<<>>),
      Given(<<"United States-Dollar">>),
      Given(<<"United", "%20", "States-Dollar">>),
      Given(<<"Canada-Dollar">>),
      Given(<<"Euro", "+", "Zone-Euro">>),
      Given(<<"Kuwait-Dinar">>),
      Given(<<"FakeCurrency">>) }

ConvertURLs ==
    { URL("/convert", Query(a, f, t)) :
        a \in AmountParams, f \in CurrencyParams, t \in CurrencyParams }

\* the requests sent through the router
FetchAmountParams ==
    { Absent, Given(<<"1", "0", "0">>), Given(<<"-", "5">>),
      Given(<<"a", "b", "c">>) }

FetchCurrencyParams ==
    { Absent, Given(<<"United", "%20", "States-Dollar">>),
      Given(<<"Canada-Dollar">>), Given(<<"Euro", "+", "Zone-Euro">>),
      Given(<<"FakeCurrency">>) }

Methods == {"GET", "POST", "DELETE"}

Pathnames == {"/convert", "/health", "/", "/hello", "/unknown-path"}

FetchRequests ==
    { Request(m, URL(path, Query(a, f, t))) :
        m \in Methods, path \in Pathnames, a \in FetchAmountParams,
        f \in FetchCurrencyParams, t \in FetchCurrencyParams }

\* currency names handed to the converter and the predicates directly
CurrencyNames ==
    {USD_CURRENCY, CANADA, EURO, KUWAIT, "FakeCurrency", ""}

\* amounts handed to convert() directly
Amounts ==
    { Fin(k, 1000) : k \in (-MaxMilli)..MaxMilli }
      \cup { Fin(100, 1), Fin(150, 1), Fin(100123, 1000), Fin(505, 10),
             Fin(125, 1000), Fin(-125, 1000), NaN, Inf(1), Inf(-1) }

\* values of new Date().toISOString()
Clock == {"2026-01-01T00:00:00.000Z", "2026-01-01T00:00:01.000Z"}

(***************************************************************************)
(* State                                                                   *)
(***************************************************************************)
VARIABLES
    exchangeRates,   \* the catalog of src/data/exchangeRates.ts
    pc,              \* "build" before the catalog is built, then "idle",
                     \* or "done" when a call has produced its result
    call,            \* the operation invoked and its arguments
    result           \* what it returned

vars == <<exchangeRates, pc, call, result>>

\* the result of a predicate
Answer(b) == [answer |-> b]

NoCall == [op |-> "none"]

NoResult == [op |-> "none"]

\* before the build step the catalog module has no entry and the worker
\* cannot run
Init ==
    /\ exchangeRates = EmptyMap
    /\ pc = "build"
    /\ call = NoCall
    /\ result = NoResult

\* the build step: the script reads the CSV table and writes the catalog
\* that the worker imports
ConvertCSVToJSON ==
    /\ pc = "build"
    /\ \E rows \in Tables :
          /\ call' = [op |-> "convertCSVToJSON", rows |-> rows]
          /\ exchangeRates' = convertCSVToJSON(rows)
    /\ result' = NoResult
    /\ pc' = "done"

\* Each operation of the worker is invoked from the idle state with
\* arguments drawn from the input sets and leaves its answer in result; the
\* catalog is only read.
ValidateQueryParams ==
    /\ pc = "idle"
    /\ \E url \in ConvertURLs :
          /\ call' = [op |-> "validateQueryParams", url |-> url]
          /\ result' = validateQueryParams(exchangeRates, url)
    /\ pc' = "done"
    /\ UNCHANGED exchangeRates

IsCurrencySupported ==
    /\ pc = "idle"
    /\ \E name \in CurrencyNames :
          /\ call' = [op |-> "isCurrencySupported", currencyName |-> name]
          /\ result' = Answer(isCurrencySupported(exchangeRates, name))
    /\ pc' = "done"
    /\ UNCHANGED exchangeRates

IsUSDPair ==
    /\ pc = "idle"
    /\ \E from \in CurrencyNames, to \in CurrencyNames :
          /\ call' = [op |-> "isUSDPair", from |-> from, to |-> to]
          /\ result' = Answer(isUSDPair(from, to))
    /\ pc' = "done"
    /\ UNCHANGED exchangeRates

IsValidAmount ==
    /\ pc = "idle"
    /\ \E amount \in Amounts :
          /\ call' = [op |-> "isValidAmount", amount |-> amount]
          /\ result' = Answer(isValidAmount(amount))
    /\ pc' = "done"
    /\ UNCHANGED exchangeRates

\* faulty variant of Convert: a currency that is looked up and not found is
\* entered into the catalog
Convert_addsMissing ==
    /\ pc = "idle"
    /\ \E amount \in Amounts, from \in CurrencyNames, to \in CurrencyNames :
          /\ call' = [op |-> "convert", amount |-> amount,
                      from |-> from, to |-> to]
          /\ result' = convert(exchangeRates, amount, from, to)
          /\ exchangeRates' =
                IF to \in DOMAIN exchangeRates THEN exchangeRates
                ELSE MapSet(exchangeRates, to,
                            [currencyName |-> to, rate |-> One,
                             effectiveDate |-> "2025-12-31"])
    /\ pc' = "done"

Convert ==
    /\ pc = "idle"
    /\ \E amount \in Amounts, from \in CurrencyNames, to \in CurrencyNames :
          /\ call' = [op |-> "convert", amount |-> amount,
                      from |-> from, to |-> to]
          /\ result' = convert(exchangeRates, amount, from, to)
    /\ pc' = "done"
    /\ UNCHANGED exchangeRates

GetEffectiveRate ==
    /\ pc = "idle"
    /\ \E from \in CurrencyNames, to \in CurrencyNames :
          /\ call' = [op |-> "getEffectiveRate", from |-> from, to |-> to]
          /\ result' = getEffectiveRate(exchangeRates, from, to)
    /\ pc' = "done"
    /\ UNCHANGED exchangeRates

HandleConvert ==
    /\ pc = "idle"
    /\ \E url \in ConvertURLs, now \in Clock :
          /\ call' = [op |-> "handleConvert", request |-> Request("GET", url)]
          /\ result' = handleConvert(exchangeRates, Request("GET", url), now)
    /\ pc' = "done"
    /\ UNCHANGED exchangeRates

Fetch ==
    /\ pc = "idle"
    /\ \E request \in FetchRequests, now \in Clock :
          /\ call' = [op |-> "fetch", request |-> request]
          /\ result' = fetch(exchangeRates, request, now)
    /\ pc' = "done"
    /\ UNCHANGED exchangeRates

\* the caller takes the result; nothing of the call is kept
Return ==
    /\ pc = "done"
    /\ pc' = "idle"
    /\ call' = NoCall
    /\ result' = NoResult
    /\ UNCHANGED exchangeRates

Next ==
    \/ ConvertCSVToJSON
    \/ ValidateQueryParams
    \/ IsCurrencySupported
    \/ IsUSDPair
    \/ IsValidAmount
    \/ Convert
    \/ GetEffectiveRate
    \/ HandleConvert
    \/ Fetch
    \/ Return

Spec == Init /\ [][Next]_vars

(***************************************************************************)
(* Vocabulary of the properties                                            *)
(***************************************************************************)
Done(op) == pc = "done" /\ call.op = op

\* the decoded value of a query parameter of the call's URL
Param(url, key) == searchParamsGet(url, key)

\* the parameter is there and is not the empty string
Present(url, key) == key \in DOMAIN url.query /\ Param(url, key).str # ""

AllPresent(url) ==
    Present(url, "amount") /\ Present(url, "from") /\ Present(url, "to")

\* the fields of an error list, in order
Fields(errors) == [i \in 1..Len(errors) |-> errors[i].field]

HasError(errors, field) == \E i \in 1..Len(errors) : errors[i].field = field

HasErrorWith(errors, field, message) ==
    \E i \in 1..Len(errors) :
        errors[i].field = field /\ errors[i].message = message

\* v is x rounded to 2 decimals: a whole number of cents c with
\* c - 1/2 <= 100 x <= c + 1/2 (a not-a-number or infinite x stays as it is)
CentRounded(v, x) ==
    IF ~IsFinite(x) THEN v = x
    ELSE /\ IsFinite(v)
         /\ 100 % v.d = 0
         /\ LET c == v.n * (100 \div v.d)
                h == Mul(x, Hundred)
            IN  /\ (2 * c - 1) * h.d <= 2 * h.n
                /\ 2 * h.n <= (2 * c + 1) * h.d

\* |x - y| <= 0.01 for finite x and y
WithinOneCent(x, y) ==
    /\ IsFinite(x)
    /\ IsFinite(y)
    /\ 100 * Abs(x.n * y.d - y.n * x.d) <= x.d * y.d

\* the request of a GET /convert call, through the router or the handler
IsConvertRequest ==
    \/ Done("handleConvert")
    \/ /\ Done("fetch")
       /\ call.request.method = "GET"
       /\ call.request.url.pathname = "/convert"

\* the conditions under which a /convert request is acceptable
Acceptable(url) ==
    /\ AllPresent(url)
    /\ LET amount == parseFloat(Param(url, "amount").chars)
       IN  ~isNaN(amount) /\ GreaterThan(amount, Zero)
    /\ Param(url, "from").str \in DOMAIN exchangeRates
    /\ Param(url, "to").str \in DOMAIN exchangeRates
    /\ \/ Param(url, "from").str = "United States-Dollar"
       \/ Param(url, "to").str = "United States-Dollar"

\* C1: a GET /convert request is answered 200 exactly when amount, from and
\* to are present and non-empty, the amount parses to a number above 0, both
\* currencies are catalog keys and one of them is the anchor; otherwise 400.
C1_StatusOfConvert ==
    IsConvertRequest =>
        /\ result.status \in {200, 400}
        /\ result.status = 200 <=> Acceptable(call.request.url)

C1_Witness ==
    /\ Done("handleConvert")
    /\ result.status = 200
    /\ result.body.from = "Canada-Dollar"
    /\ result.body.to = "United States-Dollar"

\* the catalog currencies other than the anchor
Foreign == DOMAIN exchangeRates \ {"United States-Dollar"}

\* C2: convert(amount, anchor, X) is amount times X's catalog rate rounded to
\* 2 decimals, and getEffectiveRate(anchor, X) is X's catalog rate itself.
C2_AnchorToForeign ==
    /\ (Done("convert") /\ call.from = "United States-Dollar"
            /\ call.to \in Foreign) =>
          /\ ~result.threw
          /\ CentRounded(result.value,
                         Mul(call.amount, exchangeRates[call.to].rate))
    /\ (Done("getEffectiveRate") /\ call.from = "United States-Dollar"
            /\ call.to \in Foreign) =>
          /\ ~result.isNull
          /\ result.value = exchangeRates[call.to].rate

\* 100 at rate 1.369 gives 136.90
C2_Witness ==
    /\ Done("convert")
    /\ call.from = "United States-Dollar"
    /\ call.to = "Canada-Dollar"
    /\ "Canada-Dollar" \in DOMAIN exchangeRates
    /\ exchangeRates["Canada-Dollar"].rate = Fin(1369, 1000)
    /\ call.amount = Fin(100, 1)
    /\ result.value = Fin(13690, 100)

\* C3: convert(amount, X, anchor) is amount divided by X's catalog rate
\* rounded to 2 decimals, and getEffectiveRate(X, anchor) is 1 divided by
\* X's catalog rate.
C3_ForeignToAnchor ==
    /\ (Done("convert") /\ call.to = "United States-Dollar"
            /\ call.from \in Foreign) =>
          /\ ~result.threw
          /\ CentRounded(result.value,
                         Div(call.amount, exchangeRates[call.from].rate))
    /\ (Done("getEffectiveRate") /\ call.to = "United States-Dollar"
            /\ call.from \in Foreign) =>
          /\ ~result.isNull
          /\ result.value = Div(One, exchangeRates[call.from].rate)
          /\ (IsFinite(exchangeRates[call.from].rate)
                 /\ exchangeRates[call.from].rate # Zero) =>
                Mul(result.value, exchangeRates[call.from].rate) = One

\* 150 at rate 1.369 gives 109.57
C3_Witness ==
    /\ Done("convert")
    /\ call.to = "United States-Dollar"
    /\ call.from = "Canada-Dollar"
    /\ "Canada-Dollar" \in DOMAIN exchangeRates
    /\ exchangeRates["Canada-Dollar"].rate = Fin(1369, 1000)
    /\ call.amount = Fin(150, 1)
    /\ result.value = Fin(10957, 100)

\* the amount that comes back when the result of the call
\* convert(amount, anchor, X) is converted from X to the anchor again
RoundTrip == convert(exchangeRates, result.value, call.to, "United States-Dollar")

IsAnchorToCatalog ==
    /\ Done("convert")
    /\ call.from = "United States-Dollar"
    /\ call.to \in DOMAIN exchangeRates
    /\ IsFinite(call.amount)
    /\ GreaterThan(call.amount, Zero)

\* the rate is a finite number r >= 1
RateAtLeastOne(r) == IsFinite(r) /\ r.n >= r.d

\* C4 as stated: for every catalog currency X, whatever its rate, and every
\* positive amount, convert(convert(amount, anchor, X), X, anchor) is within
\* 1 cent of amount.
C4_RoundTripAnyRate ==
    IsAnchorToCatalog =>
        ~result.threw /\ ~RoundTrip.threw
            /\ WithinOneCent(RoundTrip.value, call.amount)

\* C4 amended: the round trip is within 1 cent of amount for every catalog
\* currency X whose rate is a finite number of at least 1 and every positive
\* finite amount.
C4_RoundTripRateAtLeastOne ==
    (IsAnchorToCatalog /\ RateAtLeastOne(exchangeRates[call.to].rate)) =>
        ~result.threw /\ ~RoundTrip.threw
            /\ WithinOneCent(RoundTrip.value, call.amount)

\* a round trip through a foreign currency that does not give the amount back
C4_Witness ==
    /\ IsAnchorToCatalog
    /\ call.to = "Canada-Dollar"
    /\ ~result.threw /\ ~RoundTrip.threw
    /\ RoundTrip.value # call.amount

\* C5: for every string C, in the catalog or not, convert(amount, C, C)
\* returns amount rounded to 2 decimals without raising and
\* getEffectiveRate(C, C) returns exactly 1.
C5_Identity ==
    /\ (Done("convert") /\ call.from = call.to) =>
          ~result.threw /\ CentRounded(result.value, call.amount)
    /\ (Done("getEffectiveRate") /\ call.from = call.to) =>
          ~result.isNull /\ result.value = Fin(1, 1)

\* same-currency conversion of a name the catalog does not hold
C5_Witness ==
    /\ Done("convert")
    /\ call.from = "FakeCurrency"
    /\ call.to = "FakeCurrency"
    /\ "FakeCurrency" \notin DOMAIN exchangeRates
    /\ call.amount = Fin(15, 1000)
    /\ ~result.threw

AnchorMessage == "Only conversions involving 'United States-Dollar' are supported"

\* C6: with all three parameters present, the validator reports a
\* 'currencies' error naming the anchor exactly when neither from nor to is
\* the anchor, whatever the amount and the catalog membership of from and to.
C6_AnchorRule ==
    (Done("validateQueryParams") /\ AllPresent(call.url)) =>
        /\ HasError(result.errors, "currencies")
             <=> /\ Param(call.url, "from").str # "United States-Dollar"
                 /\ Param(call.url, "to").str # "United States-Dollar"
        /\ \A i \in 1..Len(result.errors) :
              result.errors[i].field = "currencies" =>
                  result.errors[i].message = AnchorMessage

\* the 'currencies' error together with 'amount', 'from' and 'to' errors
C6_Witness ==
    /\ Done("validateQueryParams")
    /\ Fields(result.errors) = <<"amount", "from", "to", "currencies">>

\* the names among amount, from, to that are absent or empty, in that order
MissingNames(url) ==
    SelectSeq(<<"amount", "from", "to">>, LAMBDA key : ~Present(url, key))

\* C7: if any of amount, from, to is absent or empty the validator returns
\* an invalid result with exactly one error, of field 'parameters', whose
\* message lists the missing names in the order amount, from, to joined by
\* ', '; nothing else is reported.
C7_MissingParameters ==
    (Done("validateQueryParams") /\ ~AllPresent(call.url)) =>
        /\ ~result.valid
        /\ Len(result.errors) = 1
        /\ result.errors[1].field = "parameters"
        /\ result.errors[1].message =
              "Missing required parameters: "
                  \o JoinWith(MissingNames(call.url), ", ")

\* from is the empty string and to is absent while the amount is not a
\* number: the only error is the one of the missing parameters
C7_Witness ==
    /\ Done("validateQueryParams")
    /\ call.url.query = [key \in {"amount", "from"} |->
                            IF key = "amount" THEN <<"a", "b", "c">> ELSE <<>>]
    /\ Len(result.errors) = 1
    /\ result.errors[1].message = "Missing required parameters: from, to"

\* the number of 'amount' errors
AmountErrorCount(errors) ==
    Cardinality({i \in 1..Len(errors) : errors[i].field = "amount"})

\* C8: with all three parameters present there is at most one 'amount'
\* error: 'Amount must be a valid number' exactly when the amount does not
\* parse to a number, 'Amount must be greater than 0' exactly when it parses
\* to a number that is zero or negative.
C8_AmountErrors ==
    (Done("validateQueryParams") /\ AllPresent(call.url)) =>
        LET amount == parseFloat(Param(call.url, "amount").chars)
        IN  /\ AmountErrorCount(result.errors) <= 1
            /\ HasErrorWith(result.errors, "amount",
                            "Amount must be a valid number")
                 <=> amount.k = "nan"
            /\ HasErrorWith(result.errors, "amount",
                            "Amount must be greater than 0")
                 <=> /\ amount.k # "nan"
                     /\ ~GreaterThan(amount, Zero)
            /\ GreaterThan(amount, Zero) => ~HasError(result.errors, "amount")

\* amount=0 with a supported pair
C8_Witness ==
    /\ Done("validateQueryParams")
    /\ AllPresent(call.url)
    /\ call.url.query["amount"] = <<"0">>
    /\ Fields(result.errors) = <<"amount">>
    /\ result.errors[1].message = "Amount must be greater than 0"

\* C9: with all three parameters present there is a 'from' error exactly
\* when from is not a catalog key and a 'to' error exactly when to is not a
\* catalog key, independently of each other and of the amount check.
C9_CurrencyMembership ==
    (Done("validateQueryParams") /\ AllPresent(call.url)) =>
        /\ HasError(result.errors, "from")
             <=> Param(call.url, "from").str \notin DOMAIN exchangeRates
        /\ HasError(result.errors, "to")
             <=> Param(call.url, "to").str \notin DOMAIN exchangeRates

\* an invalid amount and two unknown currencies: 'amount', 'from' and 'to'
\* are reported together
C9_Witness ==
    /\ Done("validateQueryParams")
    /\ AllPresent(call.url)
    /\ call.url.query["amount"] = <<"a", "b", "c">>
    /\ Param(call.url, "from").str = "FakeCurrency"
    /\ Param(call.url, "to").str = "FakeCurrency"
    /\ HasError(result.errors, "amount")
    /\ HasError(result.errors, "from")
    /\ HasError(result.errors, "to")

\* C10: a request the validator returns as valid has from and to in the
\* catalog, at least one of them the anchor, and carries the decoded from
\* and to parameters unchanged.
C10_ValidatedRequest ==
    (Done("validateQueryParams") /\ result.valid) =>
        /\ result.data.from \in DOMAIN exchangeRates
        /\ result.data.to \in DOMAIN exchangeRates
        /\ \/ result.data.from = "United States-Dollar"
           \/ result.data.to = "United States-Dollar"
        /\ result.data.from = Param(call.url, "from").str
        /\ result.data.to = Param(call.url, "to").str

\* percent-encoded names arrive decoded
C10_Witness ==
    /\ Done("validateQueryParams")
    /\ result.valid
    /\ call.url.query["from"] = <<"United", "%20", "States-Dollar">>
    /\ call.url.query["to"] = <<"Euro", "+", "Zone-Euro">>
    /\ result.data.from = "United States-Dollar"
    /\ result.data.to = "Euro Zone-Euro"

\* C11: every request the validator returns as valid carries an amount that
\* is finite and greater than 0, whatever amount string was sent.
C11_ValidAmountFinite ==
    (Done("validateQueryParams") /\ result.valid) =>
        /\ IsFinite(result.data.amount)
        /\ GreaterThan(result.data.amount, Zero)

\* C12: isValidAmount(x) is true exactly when x is finite and x > 0.
C12_IsValidAmountFinite ==
    Done("isValidAmount") =>
        (result.answer <=> (IsFinite(call.amount)
                               /\ GreaterThan(call.amount, Zero)))

\* the fields of the validator's errors in the order the checks run
CheckOrder == <<"parameters", "amount", "from", "to", "currencies">>

\* the position of a field in the check order
Rank(field) == CHOOSE i \in 1..Len(CheckOrder) : CheckOrder[i] = field

\* what the validator says of the request of the call
Validation == validateQueryParams(exchangeRates, call.request.url)

\* C13: when validation fails the /convert response is 400 with error
\* 'Invalid parameters', message the message of the first error in check
\* order, and details holding one field -> message entry for every error.
C13_ValidationFailure ==
    (IsConvertRequest /\ ~Validation.valid) =>
        /\ result.status = 400
        /\ result.body.error = "Invalid parameters"
        /\ Len(Validation.errors) > 0
        /\ result.body.message = Validation.errors[1].message
        /\ \A i \in 1..Len(Validation.errors) :
              /\ Validation.errors[i].field \in DOMAIN result.body.details
              /\ result.body.details[Validation.errors[i].field]
                    = Validation.errors[i].message
              /\ Rank(Validation.errors[1].field)
                    <= Rank(Validation.errors[i].field)
        /\ Cardinality(DOMAIN result.body.details) = Len(Validation.errors)

\* four errors: the message is the one of 'amount' and details has the four
\* fields
C13_Witness ==
    /\ Done("handleConvert")
    /\ result.status = 400
    /\ result.body.message = "Amount must be a valid number"
    /\ DOMAIN result.body.details = {"amount", "from", "to", "currencies"}
    /\ result.body.details["to"] = "Currency 'FakeCurrency' is not supported"

\* C14: a valid /convert request is answered 200 with the headers
\* Content-Type: application/json and Cache-Control: no-cache and a body of
\* exactly the six fields amount, from, to, converted_amount, rate and
\* timestamp, where amount, from, to are the validated values,
\* converted_amount is convert(amount, from, to) and rate is
\* getEffectiveRate(from, to).
C14_SuccessResponse ==
    (IsConvertRequest /\ Validation.valid) =>
        /\ result.status = 200
        /\ DOMAIN result.headers = {"Content-Type", "Cache-Control"}
        /\ result.headers["Content-Type"] = "application/json"
        /\ result.headers["Cache-Control"] = "no-cache"
        /\ DOMAIN result.body =
              {"amount", "from", "to", "converted_amount", "rate", "timestamp"}
        /\ result.body.amount = Validation.data.amount
        /\ result.body.from = Validation.data.from
        /\ result.body.to = Validation.data.to
        /\ result.body.converted_amount =
              convert(exchangeRates, Validation.data.amount,
                      Validation.data.from, Validation.data.to).value
        /\ ~getEffectiveRate(exchangeRates, Validation.data.from,
                             Validation.data.to).isNull
        /\ result.body.rate =
              getEffectiveRate(exchangeRates, Validation.data.from,
                               Validation.data.to).value
        /\ result.body.timestamp \in Clock

\* C15: for every request that passes validation convert does not raise
\* and getEffectiveRate does not return null, so a /convert request is
\* never answered 500: its status is 200 or 400.
C15_NoServerError ==
    /\ (Done("validateQueryParams") /\ result.valid) =>
          /\ ~convert(exchangeRates, result.data.amount,
                      result.data.from, result.data.to).threw
          /\ ~getEffectiveRate(exchangeRates, result.data.from,
                               result.data.to).isNull
    /\ IsConvertRequest =>
          result.status # 500 /\ result.status \in {200, 400}

\* a validated request from a foreign currency to the anchor
C15_Witness ==
    /\ Done("validateQueryParams")
    /\ result.valid
    /\ result.data.from = "Kuwait-Dinar"
    /\ result.data.to = "United States-Dollar"
    /\ result.data.amount = Fin(1, 100)
    /\ ~convert(exchangeRates, result.data.amount,
                result.data.from, result.data.to).threw

\* C16: for from # to, convert raises "Currency '<name>' not found in
\* exchange rates" whenever from or to is not a catalog key; the name is
\* from when from is missing (also when both are), else to; this holds for
\* pairs without the anchor too.
C16_CurrencyNotFound ==
    (Done("convert") /\ call.from # call.to
        /\ (call.from \notin DOMAIN exchangeRates
               \/ call.to \notin DOMAIN exchangeRates)) =>
        /\ result.threw
        /\ result.message =
              "Currency '"
                \o (IF call.from \notin DOMAIN exchangeRates THEN call.from
                    ELSE call.to)
                \o "' not found in exchange rates"

\* both names are missing and neither is the anchor: the fault names from
C16_Witness ==
    /\ Done("convert")
    /\ call.from = "FakeCurrency"
    /\ call.to = ""
    /\ call.amount = Fin(100, 1)
    /\ result.threw
    /\ result.message = "Currency 'FakeCurrency' not found in exchange rates"

\* C17: for two distinct catalog currencies neither of which is the anchor,
\* convert raises "Only conversions involving 'United States-Dollar' are
\* supported" for every amount and returns no number.
C17_UnsupportedPair ==
    (Done("convert") /\ call.from # call.to
        /\ call.from \in Foreign /\ call.to \in Foreign) =>
        /\ result.threw
        /\ result.message = AnchorMessage

\* Kuwait-Dinar to Canada-Dollar with both in the catalog
C17_Witness ==
    /\ Done("convert")
    /\ call.from = "Kuwait-Dinar"
    /\ call.to = "Canada-Dollar"
    /\ {"Kuwait-Dinar", "Canada-Dollar"} \subseteq DOMAIN exchangeRates
    /\ call.amount = Fin(100, 1)
    /\ result.threw

\* the cases in which convert is to raise: from differs from to and a
\* currency is not a catalog key or neither currency is the anchor
ConvertRaises(from, to) ==
    /\ from # to
    /\ \/ from \notin DOMAIN exchangeRates
       \/ to \notin DOMAIN exchangeRates
       \/ from # "United States-Dollar" /\ to # "United States-Dollar"

\* C18: getEffectiveRate(from, to) returns null exactly in the cases where
\* convert(amount, from, to) raises, and a number in every other case; on a
\* 200 response of /convert the rate is the one getEffectiveRate returned,
\* never the fallback for null.
C18_NullWhereConvertRaises ==
    /\ Done("getEffectiveRate") =>
          /\ result.isNull <=> ConvertRaises(call.from, call.to)
          /\ \A amount \in Amounts :
                convert(exchangeRates, amount, call.from, call.to).threw
                    <=> result.isNull
    /\ Done("convert") =>
          (result.threw <=> ConvertRaises(call.from, call.to))
    /\ (IsConvertRequest /\ result.status = 200) =>
          ~getEffectiveRate(exchangeRates, Validation.data.from,
                            Validation.data.to).isNull

\* null for a pair of catalog currencies without the anchor
C18_Witness ==
    /\ Done("getEffectiveRate")
    /\ call.from = "Canada-Dollar"
    /\ call.to = "Euro Zone-Euro"
    /\ {"Canada-Dollar", "Euro Zone-Euro"} \subseteq DOMAIN exchangeRates
    /\ result.isNull

\* C19: a request whose method is not GET is answered 405 with the header
\* Allow: GET and a body with error 'Method not allowed' and
\* allowed_methods ['GET'], on every path: an unknown path does not give
\* 404 and /convert is not validated or converted.
C19_MethodNotAllowed ==
    (Done("fetch") /\ call.request.method # "GET") =>
        /\ result.status = 405
        /\ "Allow" \in DOMAIN result.headers
        /\ result.headers["Allow"] = "GET"
        /\ DOMAIN result.body = {"error", "message", "allowed_methods"}
        /\ result.body.error = "Method not allowed"
        /\ result.body.allowed_methods = <<"GET">>

\* DELETE of a path that is no route
C19_Witness ==
    /\ Done("fetch")
    /\ call.request.method = "DELETE"
    /\ call.request.url.pathname = "/unknown-path"
    /\ result.status = 405

\* sub occurs in the string s
Contains(s, sub) ==
    \E i \in 1..(Len(s) - Len(sub) + 1) : SubSeq(s, i, i + Len(sub) - 1) = sub

\* the elements of a list
Elements(list) == {list[i] : i \in 1..Len(list)}

Built == pc # "build"

\* C21: after the catalog build, whatever the input table, the anchor
\* 'United States-Dollar' is a key of the catalog and its rate is exactly
\* 1.0, also when the table holds a row for the anchor with another rate.
C21_AnchorRateOne ==
    Built =>
        /\ "United States-Dollar" \in DOMAIN exchangeRates
        /\ exchangeRates["United States-Dollar"].rate = Fin(1, 1)

\* a row the build can take an entry from: all its fields are there, its
\* record date is the snapshot date, it names a currency and its rate parses
Usable(row) ==
    /\ row.fieldCount >= 5
    /\ row.recordDate = "2025-12-31"
    /\ row.currencyName # ""
    /\ ~isNaN(parseFloat(row.exchangeRateStr))

\* the position of the first usable row of the table for the currency name
FirstUsable(rows, name) ==
    CHOOSE i \in 1..Len(rows) :
        /\ Usable(rows[i]) /\ rows[i].currencyName = name
        /\ \A j \in 1..(i - 1) :
              ~(Usable(rows[j]) /\ rows[j].currencyName = name)

HasUsable(rows, name) ==
    \E i \in 1..Len(rows) : Usable(rows[i]) /\ rows[i].currencyName = name

\* C22: the catalog build keeps only rows of the snapshot date 2025-12-31,
\* and the entry of a currency name is the first such row in file order
\* with a rate that parses; later rows of the name do not replace it.
C22_FirstOccurrenceWins ==
    Done("convertCSVToJSON") =>
        /\ \A name \in DOMAIN exchangeRates :
              IF HasUsable(call.rows, name)
              THEN LET row == call.rows[FirstUsable(call.rows, name)]
                   IN  /\ row.recordDate = "2025-12-31"
                       /\ exchangeRates[name].currencyName = name
                       /\ exchangeRates[name].rate
                             = parseFloat(row.exchangeRateStr)
                       /\ exchangeRates[name].effectiveDate
                             = row.effectiveDate
              ELSE name = "United States-Dollar"
        /\ \A i \in 1..Len(call.rows) :
              Usable(call.rows[i]) =>
                  call.rows[i].currencyName \in DOMAIN exchangeRates

\* two rows of the snapshot date for Canada-Dollar: the first one is kept
C22_Witness ==
    /\ Done("convertCSVToJSON")
    /\ Len(call.rows) = 2
    /\ call.rows[1].currencyName = "Canada-Dollar"
    /\ call.rows[1].exchangeRateStr = <<"1", ".", "3", "6", "9">>
    /\ call.rows[2].currencyName = "Canada-Dollar"
    /\ call.rows[2].exchangeRateStr = <<"2">>
    /\ exchangeRates["Canada-Dollar"].rate = Fin(1369, 1000)

\* C23: once built, the catalog stays as it is through every request:
\* validateQueryParams, isCurrencySupported, convert, getEffectiveRate,
\* handleConvert and fetch add, change and remove no entry.
C23_CatalogReadOnly == [][Built => exchangeRates' = exchangeRates]_vars

\* a conversion that named a currency the catalog does not hold has been
\* answered and the catalog still does not hold it
C23_Witness ==
    /\ Done("convert")
    /\ call.to = "FakeCurrency"
    /\ result.threw
    /\ "FakeCurrency" \notin DOMAIN exchangeRates
    /\ "Canada-Dollar" \in DOMAIN exchangeRates

\* a response without the timestamp field of its body
WithoutTimestamp(response) ==
    [status |-> response.status, headers |-> response.headers,
     body |-> [f \in DOMAIN response.body \ {"timestamp"} |->
                  response.body[f]]]

\* the response given is the one the request gets at any time: its status,
\* headers and body without the timestamp are determined by the method,
\* path and query of the request and the catalog
SameAnswerAtAnyTime ==
    /\ Done("fetch") =>
          \A now \in Clock :
              WithoutTimestamp(result)
                  = WithoutTimestamp(fetch(exchangeRates, call.request, now))
    /\ Done("handleConvert") =>
          \A now \in Clock :
              WithoutTimestamp(result)
                  = WithoutTimestamp(
                        handleConvert(exchangeRates, call.request, now))

\* C24: the status and the body without its timestamp depend only on the
\* method, path and query of the request: a request gets the same answer
\* at any time, and no request changes the catalog the answers are
\* computed from, so requests handled before do not matter.
C24_Independent ==
    []SameAnswerAtAnyTime /\ [][Built => exchangeRates' = exchangeRates]_vars

\* a conversion answered at the later instant with the answer of the
\* earlier one
C24_Witness ==
    /\ Done("fetch")
    /\ call.request.method = "GET"
    /\ call.request.url.pathname = "/convert"
    /\ result.status = 200
    /\ result.body.timestamp = "2026-01-01T00:00:01.000Z"
    /\ result.body.to = "Canada-Dollar"
    /\ WithoutTimestamp(result)
          = WithoutTimestamp(fetch(exchangeRates, call.request,
                                   "2026-01-01T00:00:00.000Z"))

\* the value convert computes before it rounds
Unrounded ==
    IF call.from = call.to THEN call.amount
    ELSE IF call.from = "United States-Dollar"
    THEN Mul(call.amount, exchangeRates[call.to].rate)
    ELSE Div(call.amount, exchangeRates[call.from].rate)

\* x rounded to 2 decimals, a half going away from zero:
\* sign(x) * floor(|x| * 100 + 1/2) / 100
HalfAwayFromZero(x) ==
    LET h == Mul(x, Hundred)
    IN  Fin(Sign(h.n) * ((2 * Abs(h.n) + h.d) \div (2 * h.d)), 100)

\* C25: the value convert returns is the unrounded result rounded to 2
\* decimals with a half going away from zero, for negative values as for
\* positive ones.
C25_RoundHalfAwayFromZero ==
    (Done("convert") /\ ~result.threw /\ IsFinite(Unrounded)) =>
        result.value = HalfAwayFromZero(Unrounded)

\* C26: every entry of the built catalog has a rate above 0: the build
\* admits no row whose exchange rate is zero or negative.
C26_PositiveRates ==
    Built =>
        \A name \in DOMAIN exchangeRates :
            GreaterThan(exchangeRates[name].rate, Zero)

\* the string starts, behind its white space, with a character that no
\* number starts with
NoNumericPrefix(s) ==
    LET i == SkipWhiteSpace(s, 1)
    IN  i > Len(s) \/ ~(IsDigit(s[i]) \/ s[i] \in {"+", "-", ".", "I"})

\* the string is a run of n digits that nothing numeric follows
DigitsThenOther(s, n) ==
    n > 0 /\ ~CharAtIn(s, n + 1, {".", "e", "E"})

\* C27: the amount is read by leading-prefix parsing: a positive number
\* followed by other characters ('100abc') is accepted and validated as
\* the leading number, a string with no numeric prefix gets the 'valid
\* number' error, and the amount of a 200 body is the parsed number.
C27_LeadingPrefixParsing ==
    /\ (Done("validateQueryParams") /\ AllPresent(call.url)) =>
          LET s == Param(call.url, "amount").chars
              n == DigitRun(s, 1)
          IN  /\ (DigitsThenOther(s, n) /\ DigitsValue(s, 1, n) > 0) =>
                    /\ ~HasError(result.errors, "amount")
                    /\ result.valid =>
                          result.data.amount = Fin(DigitsValue(s, 1, n), 1)
              /\ NoNumericPrefix(s) =>
                    HasErrorWith(result.errors, "amount",
                                 "Amount must be a valid number")
    /\ (IsConvertRequest /\ result.status = 200) =>
          result.body.amount
              = parseFloat(Param(call.request.url, "amount").chars)

\* the amount is positive and at least one cent
AtLeastOneCent(x) ==
    IF IsFinite(x) THEN 100 * x.n >= x.d ELSE x = Inf(1)

\* a conversion of at least one cent from the anchor to a catalog currency
FromAnchorAtLeastOneCent ==
    /\ Done("convert")
    /\ call.from = "United States-Dollar"
    /\ call.to \in DOMAIN exchangeRates
    /\ AtLeastOneCent(call.amount)

\* the rate is a finite number r >= 0.5
RateAtLeastHalf(r) == IsFinite(r) /\ 2 * r.n >= r.d

\* C28 as stated: converting a positive amount of at least one cent from
\* the anchor to any catalog currency gives a result above 0.
C28_PositiveToAnyCurrency ==
    FromAnchorAtLeastOneCent =>
        ~result.threw /\ GreaterThan(result.value, Zero)

\* C28 amended: converting a positive amount of at least one cent from the
\* anchor to the anchor itself or to a catalog currency whose rate is at
\* least 0.5 gives a result above 0.
C28_PositiveForRateAtLeastHalf ==
    (FromAnchorAtLeastOneCent
        /\ (call.to = "United States-Dollar"
               \/ RateAtLeastHalf(exchangeRates[call.to].rate))) =>
        ~result.threw /\ GreaterThan(result.value, Zero)

\* one cent at rate 0.851 gives one cent
C28_Witness ==
    /\ FromAnchorAtLeastOneCent
    /\ call.to = "Euro Zone-Euro"
    /\ exchangeRates["Euro Zone-Euro"].rate = Fin(851, 1000)
    /\ call.amount = Fin(1, 100)
    /\ result.value = Fin(1, 100)

\* C29: an invalid result of the validator has at least one error, its
\* field tags are among 'parameters', 'amount', 'from', 'to', 'currencies'
\* and pairwise distinct, and 'parameters' comes alone; so the details of
\* the 400 response have as many keys as there are errors and its message
\* is never the fallback 'Invalid request parameters'.
C29_DistinctErrorFields ==
    /\ (Done("validateQueryParams") /\ ~result.valid) =>
          /\ Len(result.errors) >= 1
          /\ \A i \in 1..Len(result.errors) :
                /\ result.errors[i].field \in Elements(CheckOrder)
                /\ result.errors[i].message # ""
                /\ \A j \in 1..Len(result.errors) :
                      result.errors[i].field = result.errors[j].field => i = j
          /\ HasError(result.errors, "parameters") => Len(result.errors) = 1
    /\ (IsConvertRequest /\ result.status = 400) =>
          /\ Cardinality(DOMAIN result.body.details) = Len(Validation.errors)
          /\ result.body.message # "Invalid request parameters"

\* a negative amount with two unknown currencies: four errors, four fields
C29_Witness ==
    /\ Done("validateQueryParams")
    /\ ~result.valid
    /\ Len(result.errors) = 4
    /\ result.errors[1].message = "Amount must be greater than 0"
    /\ Cardinality(Elements(Fields(result.errors))) = 4

\* a /convert request with an amount above 0 whose from and to are one and
\* the same name
IsSameCurrencyRequest ==
    /\ IsConvertRequest
    /\ AllPresent(call.request.url)
    /\ GreaterThan(parseFloat(Param(call.request.url, "amount").chars), Zero)
    /\ Param(call.request.url, "from").str = Param(call.request.url, "to").str

\* what convert answers when called with the parameters of the request
DirectConvert ==
    convert(exchangeRates,
            parseFloat(Param(call.request.url, "amount").chars),
            Param(call.request.url, "from").str,
            Param(call.request.url, "to").str)

\* C30: a request with a valid amount and from = to = a catalog currency
\* other than the anchor is answered 400 with a 'currencies' error, while
\* convert called with the same arguments returns the amount rounded to 2
\* decimals; a same-currency request is answered 200 only for the anchor.
C30_SameCurrencyDisagreement ==
    IsSameCurrencyRequest =>
        /\ Param(call.request.url, "from").str \in Foreign =>
              /\ result.status = 400
              /\ DOMAIN result.body.details = {"currencies"}
              /\ result.body.details["currencies"] = AnchorMessage
              /\ ~DirectConvert.threw
              /\ CentRounded(DirectConvert.value,
                       parseFloat(Param(call.request.url, "amount").chars))
        /\ result.status = 200
              <=> Param(call.request.url, "from").str = "United States-Dollar"

\* 100 from Canada-Dollar to Canada-Dollar: 400 from the handler, 100 from
\* convert
C30_Witness ==
    /\ Done("handleConvert")
    /\ IsSameCurrencyRequest
    /\ Param(call.request.url, "from").str = "Canada-Dollar"
    /\ "Canada-Dollar" \in DOMAIN exchangeRates
    /\ call.request.url.query["amount"] = <<"1", "0", "0">>
    /\ result.status = 400
    /\ DirectConvert.value = Fin(100, 1)

====
